---- MODULE Spec2Model ----
(***************************************************************************)
(* Model of the project pipeline of the site (loadProjects ->              *)
(* bufferIterable -> deleteUndefined -> sort, in both projects pages) and  *)
(* of the string utilities slugify and formatUrlWithQuery.                 *)
(***************************************************************************)
EXTENDS Integers, Sequences, FiniteSets, TLC

VARIABLES
    production,  \* isProduction(): the environment the build runs in
    loaderRev,   \* which revision of loadProjects is deployed: "always" | "devOnly"
    fakes,       \* the fixture array; index = object identity, value = the record now
    fixture,     \* history: the fixture array as compiled (the Data Source)
    pc,          \* per render: "off" | "buffering" | "done"
    page,        \* per render: "A" (showcase grid) | "B" (ranked list)
    yielded,     \* per render: history of the references the Loader yielded, in order
    projects,    \* per render: the local array `projects` (references into fakes)
    seenAs,      \* per render: history of each buffered record's value when buffered
    events,      \* per render: history of the statements getStaticProps has run
    raised,      \* per render: history of the error the Loader's sequence raised
    thrown,      \* per render: the error getStaticProps was rejected with
    view,        \* per render: the elements ProjectsPage rendered from the props
    utilPc,      \* "idle" | "input" | "slugified" | "formatted" | "tested"
    text,        \* slugify: the argument, a sequence of characters
    slug,        \* slugify: the result
    url,         \* formatUrlWithQuery: the url argument
    params,      \* formatUrlWithQuery: the params argument, its entries in order
    formatted,   \* formatUrlWithQuery: the result
    absolute,    \* isAbsoluteUrl: the result, of the argument url
    config,      \* next.config: process.env as read, and the env.SITE_URL computed
    request      \* a request served under the redirects: its path and hops so far

pipeVars ==
    <<production, loaderRev, fakes, fixture, pc, page, yielded, projects, seenAs, events,
      raised, thrown, view>>

utilVars == <<utilPc, text, slug, url, params, formatted, absolute>>

cfgVars == <<config, request>>

vars == <<pipeVars, utilVars, cfgVars>>

----------------------------------------------------------------------------
(* Bounds *)

MaxProjects == 3   \* longest fixture array of the one-render specification
MaxShared == 2     \* longest fixture array of the concurrent specification
NumRenders == 2    \* concurrent getStaticProps executions
MaxTextLen == 5    \* longest argument of slugify
MaxUrlLen == 5     \* longest url argument of formatUrlWithQuery
MaxAbsLen == 4     \* longest url argument of isAbsoluteUrl
MaxStars == 1001   \* largest star count of a ranked-list card

Renders == 1..NumRenders

----------------------------------------------------------------------------
(* JavaScript values, tagged by typeof *)

Str(s) == [t |-> "string", v |-> s]
Num(n) == [t |-> "number", v |-> n]
Bool(b) == [t |-> "boolean", v |-> b]
Undefined == [t |-> "undefined"]

(* Project records: name, archived and stars are required by the Project    *)
(* type; githubUrl stands for the optional keys, which may be missing,      *)
(* bound to undefined, or bound to a string (possibly empty).               *)
Project(name, archived, stars) ==
    [name |-> Str(name), archived |-> Bool(archived), stars |-> Num(stars)]

WithGithubUrl(p, value) ==
    [k \in DOMAIN p \cup {"githubUrl"} |-> IF k = "githubUrl" THEN value ELSE p[k]]

ProjectPool ==
    { Project("B", FALSE, 1),
      WithGithubUrl(Project("A", TRUE, 5), Undefined),
      WithGithubUrl(Project("C", FALSE, 3), Str("")),
      WithGithubUrl(Project("a", FALSE, 5), Str("g")),
      WithGithubUrl(Project("B", FALSE, 1), Undefined),
      WithGithubUrl(Project("B", TRUE, 0), Str("")) }

(* The records the concurrent specification draws its fixtures from. *)
SharedPool ==
    { Project("B", FALSE, 1),
      WithGithubUrl(Project("A", TRUE, 5), Undefined),
      WithGithubUrl(Project("C", FALSE, 3), Str("")),
      WithGithubUrl(Project("a", FALSE, 5), Str("g")) }

SeqsUpTo(S, n) == UNION { [1..k -> S] : k \in 0..n }

----------------------------------------------------------------------------
(* The fixture lists of the repository *)

FakeProject(name, projectUrl, archived, description, stars, downloads, language) ==
    [name |-> Str(name), url |-> Str(projectUrl), archived |-> Bool(archived),
     description |-> Str(description), stars |-> Num(stars),
     downloads |-> Num(downloads), language |-> Str(language)]

PersonalWebsite ==
    FakeProject("Personal Website", "https://github.com/jonathancaleb/Caleb.me", FALSE,
                "A personal webapp built using react, next, firebase..", 4, 2, "Next js")

(* Faulty variant of a fixture record: the downloads key left out.         *)
PdfReader_DownloadsMissing ==
    [name |-> Str("PDF Reader"), url |-> Str("https://github.com/jonathancaleb/PDFRipper"),
     archived |-> Bool(FALSE),
     description |-> Str("Python program to automatically extract text from a pdf documnet"),
     stars |-> Num(2), language |-> Str("Python")]

PdfReader ==
    FakeProject("PDF Reader", "https://github.com/jonathancaleb/PDFRipper", FALSE,
                "Python program to automatically extract text from a pdf documnet",
                2, 0, "Python")

ResumeBuilder ==
    FakeProject("Resume Builder", "https://workfolio-ten.vercel.app/", FALSE,
                "A resume builder built using typescript", 4, 2, "Next js")

JobApp ==
    FakeProject("Job App",
                "https://play.google.com/store/apps/details?id=oss.avsi.connect", FALSE,
                "Avsi connect is a platform for jobs, proffessional connections.",
                1, 10, "Dart")

LoanApp ==
    FakeProject("Loan App",
                "https://play.google.com/store/apps/details?id=ke.co.solarrays.ug", FALSE,
                "A loan app that enables users to borrow and process loans within the shortest period of time.",
                5, 100, "Dart")

CompanyWebsite ==
    FakeProject("Company Website", "https://galaxyconcepts.org", FALSE,
                "A website built for a construction company.", 1, 0, "SCSS")

FakesSix == <<PersonalWebsite, PdfReader, ResumeBuilder, JobApp, LoanApp, CompanyWebsite>>

FakesThree == <<JobApp, LoanApp, CompanyWebsite>>

FakesTwo == <<JobApp, LoanApp>>

FixtureLists == {FakesSix, FakesThree, FakesTwo}

----------------------------------------------------------------------------
(* The Loader *)

(* What one consumption of loadProjects() yields, as references.            *)
AllRefs == [i \in 1..Len(fakes) |-> i]

LoadProjectsAlways == AllRefs

LoadProjectsDevOnly == IF ~production THEN AllRefs ELSE <<>>

LoaderSequence == IF loaderRev = "always" THEN LoadProjectsAlways ELSE LoadProjectsDevOnly

----------------------------------------------------------------------------
(* utils/object.deleteUndefined, on one record and on the array's records  *)

DeleteUndefinedRecord(rec) ==
    [k \in {key \in DOMAIN rec : rec[key].t # "undefined"} |-> rec[k]]

DeleteUndefined(list, store) ==
    [i \in DOMAIN store |->
        IF \E k \in 1..Len(list) : list[k] = i
        THEN DeleteUndefinedRecord(store[i])
        ELSE store[i]]

----------------------------------------------------------------------------
(* Comparators and Array.prototype.sort *)

(* String.prototype.localeCompare on the names of the pool: the collation  *)
(* orders letters first and, between equal letters, lower case first.      *)
(* Canonically equivalent strings compare equal: "\\u00e9" stands for the *)
(* precomposed e-acute, "e\\u0301" for e followed by the combining acute. *)
CollationRank(s) ==
    CASE s = "a" -> 1 [] s = "A" -> 2
      [] s = "b" -> 3 [] s = "B" -> 4
      [] s = "c" -> 5 [] s = "C" -> 6
      [] s = "Company Website" -> 7
      [] s = "Job App" -> 8
      [] s = "Loan App" -> 9
      [] s = "PDF Reader" -> 10
      [] s = "Personal Website" -> 11
      [] s = "Resume Builder" -> 12
      [] s = "\\u00e9" -> 13 [] s = "e\\u0301" -> 13

Sign(n) == IF n < 0 THEN -1 ELSE IF n > 0 THEN 1 ELSE 0

LocaleCompare(s, u) == Sign(CollationRank(s) - CollationRank(u))

(* Faulty variants of the Policy A comparator: archived projects first;    *)
(* and a comparator that answers 1 whenever the archived flags differ.    *)
ComparePolicyA_ArchivedFirst(a, b) ==
    IF a.archived.v # b.archived.v
    THEN (IF a.archived.v THEN -1 ELSE 1)
    ELSE LocaleCompare(a.name.v, b.name.v)

ComparePolicyA_AlwaysAfter(a, b) ==
    IF a.archived.v # b.archived.v
    THEN 1
    ELSE LocaleCompare(a.name.v, b.name.v)

ComparePolicyA(a, b) ==
    IF a.archived.v # b.archived.v
    THEN (IF a.archived.v THEN 1 ELSE -1)
    ELSE LocaleCompare(a.name.v, b.name.v)

(* Faulty variants of the Policy B comparator: ascending; and one that    *)
(* never answers 0, so that equal stars count as out of order.            *)
ComparePolicyB_Ascending(a, b) == a.stars.v - b.stars.v

ComparePolicyB_NoTie(a, b) == IF b.stars.v >= a.stars.v THEN 1 ELSE -1

ComparePolicyB(a, b) == b.stars.v - a.stars.v

Compare(policy, a, b) ==
    IF policy = "A" THEN ComparePolicyA(a, b) ELSE ComparePolicyB(a, b)

(* Array.prototype.sort is stable: an element moves left only past         *)
(* elements the comparator puts strictly after it.                         *)
RECURSIVE InsertSorted(_, _, _, _)
InsertSorted(policy, store, x, s) ==
    IF s = <<>>
    THEN <<x>>
    ELSE IF Compare(policy, store[s[Len(s)]], store[x]) > 0
         THEN Append(InsertSorted(policy, store, x, SubSeq(s, 1, Len(s) - 1)), s[Len(s)])
         ELSE Append(s, x)

RECURSIVE SortPrefix(_, _, _, _)
SortPrefix(policy, store, list, k) ==
    IF k = 0
    THEN <<>>
    ELSE InsertSorted(policy, store, list[k], SortPrefix(policy, store, list, k - 1))

ArraySort(policy, store, list) == SortPrefix(policy, store, list, Len(list))

----------------------------------------------------------------------------
(* getStaticProps *)

(* utils/async.bufferIterable keeps the items in the order they come.      *)
BufferPush(list, item) == Append(list, item)

RECURSIVE BufferPushAll(_, _)
BufferPushAll(list, items) ==
    IF items = <<>>
    THEN list
    ELSE BufferPushAll(BufferPush(list, Head(items)), Tail(items))

(* Faulty variant: a loop without the wait runs to the end of the list.    *)
ResumedUntil_NoSuspension(r) == Len(LoaderSequence)

(* A resumed Loader runs to its next yield and is suspended there: it      *)
(* yields the one item after those already yielded.                        *)
ResumedUntil(r) == Len(yielded[r]) + 1

(* bufferIterable(loadProjects()): one item of the Loader is pushed onto   *)
(* the render's own array; the render is suspended between two items.      *)
BufferNext(r) ==
    /\ pc[r] = "buffering"
    /\ Len(yielded[r]) < Len(LoaderSequence)
    /\ LET items == SubSeq(LoaderSequence, Len(yielded[r]) + 1, ResumedUntil(r))
       IN /\ yielded' = [yielded EXCEPT ![r] = @ \o items]
          /\ projects' = [projects EXCEPT ![r] = BufferPushAll(@, items)]
          /\ seenAs' = [seenAs EXCEPT ![r] =
                            @ \o [i \in 1..Len(items) |-> fakes[items[i]]]]
          /\ events' = [events EXCEPT ![r] =
                            @ \o [i \in 1..Len(items) |-> "push"]]
    /\ UNCHANGED <<production, loaderRev, fakes, fixture, pc, page, raised, thrown, view>>
    /\ UNCHANGED utilVars
    /\ UNCHANGED cfgVars

(* Faulty variants of the call: the call left out; and a call that also   *)
(* drops the keys bound to the empty string.                               *)
CleanedRecords_Skipped(list, store) == store

IsUndefinedOrEmpty(value) ==
    \/ value.t = "undefined"
    \/ value.t = "string" /\ value.v = ""

CleanedRecords_EmptyToo(list, store) ==
    [i \in DOMAIN store |->
        IF \E k \in 1..Len(list) : list[k] = i
        THEN [k \in {key \in DOMAIN store[i] : ~IsUndefinedOrEmpty(store[i][key])}
                 |-> store[i][k]]
        ELSE store[i]]

(* The records after the call deleteUndefined(projects).                   *)
CleanedRecords(list, store) == DeleteUndefined(list, store)

(* The array after the call projects.sort(comparator).                     *)
SortedProjects(policy, store, list) == ArraySort(policy, store, list)

(* Faulty variant: the list is used without waiting for the Loader.        *)
BufferResolved_NotAwaited(r) == TRUE

(* await bufferIterable(...): the call resolves when the Loader is         *)
(* exhausted.                                                              *)
BufferResolved(r) == Len(yielded[r]) = Len(LoaderSequence)

(* The statements after the await, in program order.                       *)
StatementsAfterAwait == <<"deleteUndefined", "sort", "return">>

(* The Loader is exhausted: deleteUndefined, sort and return run without   *)
(* suspension.                                                             *)
Finish(r) ==
    /\ pc[r] = "buffering"
    /\ BufferResolved(r)
    /\ LET cleaned == CleanedRecords(projects[r], fakes)
       IN /\ fakes' = cleaned
          /\ projects' = [projects EXCEPT ![r] = SortedProjects(page[r], cleaned, @)]
    /\ pc' = [pc EXCEPT ![r] = "done"]
    /\ events' = [events EXCEPT ![r] = @ \o StatementsAfterAwait]
    /\ UNCHANGED <<production, loaderRev, fixture, page, yielded, seenAs, raised, thrown,
                   view>>
    /\ UNCHANGED utilVars
    /\ UNCHANGED cfgVars

----------------------------------------------------------------------------
(* ProjectsPage *)

(* rec[key] of JavaScript: a missing key reads as undefined.               *)
PropertyGet(rec, key) == IF key \in DOMAIN rec THEN rec[key] ELSE Undefined

Truthy(value) ==
    CASE value.t = "undefined" -> FALSE
      [] value.t = "string" -> value.v # ""
      [] value.t = "number" -> value.v # 0
      [] value.t = "boolean" -> value.v

(* a || b *)
LogicalOr(a, b) == IF Truthy(a) THEN a ELSE b

(* href of the GitHub link: the card grid reads githubUrl || url, the      *)
(* ranked list reads githubUrl alone.                                      *)
GithubHref(policy, rec) ==
    IF policy = "A"
    THEN LogicalOr(PropertyGet(rec, "githubUrl"), PropertyGet(rec, "url"))
    ELSE PropertyGet(rec, "githubUrl")

(* key={i} of projects.map((project, i) => ...): the index, from 0.        *)
ElementKey(rec, i) == Num(i)

(* Faulty variant of the tiers: the middle tier starts above 100.          *)
StarTierClasses_Above100(stars) ==
    (IF stars >= 1000 THEN {"border-purple-500"} ELSE {})
    \cup (IF stars > 100 /\ stars < 1000
          THEN {"border-purple-300", "dark:border-purple-700"} ELSE {})
    \cup (IF stars < 100 THEN {"border-purple-100", "dark:border-purple-900"} ELSE {})

(* The border classes of a ranked-list card: every class of the object     *)
(* whose condition is true.                                                *)
StarTierClasses(stars) ==
    (IF stars >= 1000 THEN {"border-purple-500"} ELSE {})
    \cup (IF stars >= 100 /\ stars < 1000
          THEN {"border-purple-300", "dark:border-purple-700"} ELSE {})
    \cup (IF stars < 100 THEN {"border-purple-100", "dark:border-purple-900"} ELSE {})

BorderClasses(policy, rec) ==
    IF policy = "B" THEN StarTierClasses(rec.stars.v) ELSE {}

(* ProjectsPage renders the props getStaticProps returned: one element per *)
(* project, in the order of the list.                                      *)
RenderPage(r) ==
    /\ pc[r] = "done"
    /\ ~view[r].mounted
    /\ view' = [view EXCEPT ![r] =
           [mounted |-> TRUE,
            items |-> [k \in 1..Len(projects[r]) |->
                          [key |-> ElementKey(fakes[projects[r][k]], k - 1),
                           href |-> GithubHref(page[r], fakes[projects[r][k]]),
                           classes |-> BorderClasses(page[r], fakes[projects[r][k]])]]]]
    /\ UNCHANGED <<production, loaderRev, fakes, fixture, pc, page, yielded, projects,
                   seenAs, events, raised, thrown>>
    /\ UNCHANGED utilVars
    /\ UNCHANGED cfgVars

----------------------------------------------------------------------------
(* Specifications of the pipeline *)

(* The configuration is not loaded and no request is served.               *)
ConfigIdle ==
    /\ config = [pc |-> "off",
                 env |-> [SITE_URL |-> Undefined, VERCEL_URL |-> Undefined],
                 SITE_URL |-> Undefined]
    /\ request = [path |-> <<>>, hops |-> 0]

PipeInitWith(active, lists) ==
    /\ ConfigIdle
    /\ production \in BOOLEAN
    /\ loaderRev \in {"always", "devOnly"}
    /\ fixture \in lists
    /\ fakes = fixture
    /\ pc = [r \in Renders |-> IF r \in active THEN "buffering" ELSE "off"]
    /\ page \in [Renders -> {"A", "B"}]
    /\ \A r \in Renders \ active : page[r] = "A"
    /\ yielded = [r \in Renders |-> <<>>]
    /\ projects = [r \in Renders |-> <<>>]
    /\ seenAs = [r \in Renders |-> <<>>]
    /\ events = [r \in Renders |-> <<>>]
    /\ raised = [r \in Renders |-> "none"]
    /\ thrown = [r \in Renders |-> "none"]
    /\ view = [r \in Renders |-> [mounted |-> FALSE, items |-> <<>>]]
    /\ utilPc = "idle"
    /\ text = <<>>
    /\ slug = <<>>
    /\ url = <<>>
    /\ params = <<>>
    /\ formatted = <<>>
    /\ absolute = FALSE

PipeInit(active, pool, maxLen) == PipeInitWith(active, SeqsUpTo(pool, maxLen))

Init == PipeInit(Renders, SharedPool, MaxShared)

Next == \E r \in Renders : BufferNext(r) \/ Finish(r) \/ RenderPage(r)

Spec == Init /\ [][Next]_vars

(* One render over the longer fixtures. *)
InitSingle == PipeInit({1}, ProjectPool, MaxProjects)

SpecSingle == InitSingle /\ [][Next]_vars

(* Concurrent renders over the fixture lists of the repository. *)
InitFixtures == PipeInitWith(Renders, FixtureLists)

SpecFixtures == InitFixtures /\ [][Next]_vars

(* The records the order-independence specification draws its lists from:  *)
(* no two share both archived and name.                                    *)
OrderPool ==
    { Project("a", FALSE, 5),
      Project("A", FALSE, 3),
      Project("A", TRUE, 5),
      Project("\\u00e9", FALSE, 1),
      Project("e\\u0301", FALSE, 2) }

InitOrder == PipeInit({1}, OrderPool, MaxProjects)

SpecOrder == InitOrder /\ [][Next]_vars

(* One render of the ranked list over one project of any star count. *)
InitTier ==
    /\ PipeInitWith({1}, { <<Project("B", FALSE, n)>> : n \in 0..MaxStars })
    /\ page[1] = "B"

SpecTier == InitTier /\ [][Next]_vars

(* The errors a Loader backed by a real fetch may raise.                   *)
Errors == {"FetchError", "RateLimitError"}

(* utils/async.bufferIterable fails with the error of its sequence.        *)
BufferRejection(e) == e

(* Faulty variant: the rejection is caught and the items buffered so far   *)
(* are returned as the props.                                              *)
AwaitRejected_Caught(r, e) ==
    /\ pc' = [pc EXCEPT ![r] = "done"]
    /\ events' = [events EXCEPT ![r] = Append(@, "return")]
    /\ UNCHANGED <<projects, thrown>>

(* The await of getStaticProps is in no try block: the rejection of        *)
(* bufferIterable leaves getStaticProps, which binds no list and returns   *)
(* no props.                                                               *)
AwaitRejected(r, e) ==
    /\ pc' = [pc EXCEPT ![r] = "failed"]
    /\ thrown' = [thrown EXCEPT ![r] = e]
    /\ projects' = [projects EXCEPT ![r] = <<>>]
    /\ events' = [events EXCEPT ![r] = Append(@, "throw")]

(* The Loader's sequence raises e instead of giving its next result.       *)
SequenceRaises(r, e) ==
    /\ pc[r] = "buffering"
    /\ raised' = [raised EXCEPT ![r] = e]
    /\ AwaitRejected(r, BufferRejection(e))
    /\ UNCHANGED <<production, loaderRev, fakes, fixture, page, yielded, seenAs, view>>
    /\ UNCHANGED utilVars
    /\ UNCHANGED cfgVars

NextFaulty == Next \/ \E r \in Renders, e \in Errors : SequenceRaises(r, e)

SpecFaulty == InitSingle /\ [][NextFaulty]_vars


----------------------------------------------------------------------------
(* Strings are sequences of one-character strings. *)

Lower == << "a", "b", "c", "d", "e", "f", "g", "h", "i", "j", "k", "l", "m",
            "n", "o", "p", "q", "r", "s", "t", "u", "v", "w", "x", "y", "z" >>

Upper == << "A", "B", "C", "D", "E", "F", "G", "H", "I", "J", "K", "L", "M",
            "N", "O", "P", "Q", "R", "S", "T", "U", "V", "W", "X", "Y", "Z" >>

Digits == {"0", "1", "2", "3", "4", "5", "6", "7", "8", "9"}

Range(f) == {f[i] : i \in DOMAIN f}

ToLowerChar(ch) ==
    IF ch \in Range(Upper)
    THEN Lower[CHOOSE i \in 1..26 : Upper[i] = ch]
    ELSE ch

ToLowerCase(s) == [i \in 1..Len(s) |-> ToLowerChar(s[i])]

(* The class [a-z0-9]. *)
IsSlugChar(ch) == ch \in Range(Lower) \cup Digits

----------------------------------------------------------------------------
(* slugify *)

RECURSIVE SkipNonSlugChars(_)
SkipNonSlugChars(s) ==
    IF s # <<>> /\ ~IsSlugChar(Head(s)) THEN SkipNonSlugChars(Tail(s)) ELSE s

(* Faulty variant of the first replace: the pattern without its +, so     *)
(* that every character of a run becomes a hyphen.                         *)
ReplaceNonSlugRuns_PerChar(s) ==
    [i \in 1..Len(s) |-> IF IsSlugChar(s[i]) THEN s[i] ELSE "-"]

(* .replace(/[^a-z0-9]+/g, '-'): left to right, each match is the longest  *)
(* run of characters outside the class.                                    *)
RECURSIVE ReplaceNonSlugRuns(_)
ReplaceNonSlugRuns(s) ==
    IF s = <<>>
    THEN <<>>
    ELSE IF IsSlugChar(Head(s))
         THEN <<Head(s)>> \o ReplaceNonSlugRuns(Tail(s))
         ELSE <<"-">> \o ReplaceNonSlugRuns(SkipNonSlugChars(Tail(s)))

(* Faulty variant of the second replace: the pattern /^-/, which leaves a  *)
(* hyphen at the end.                                                      *)
StripEdgeHyphens_LeadingOnly(s) ==
    IF Len(s) > 0 /\ s[1] = "-" THEN Tail(s) ELSE s

(* .replace(/^-|-$/g, ''): one hyphen at the start and one hyphen at the   *)
(* end, the second match starting after the first.                         *)
StripEdgeHyphens(s) ==
    LET lead == IF Len(s) > 0 /\ s[1] = "-" THEN 1 ELSE 0
        trail == IF Len(s) > lead /\ s[Len(s)] = "-" THEN 1 ELSE 0
    IN SubSeq(s, 1 + lead, Len(s) - trail)

Slugify(s) == StripEdgeHyphens(ReplaceNonSlugRuns(ToLowerCase(s)))

SlugAlphabet == {"A", "b", "1", "-", " "}

SlugInit ==
    /\ utilPc = "input"
    /\ text \in SeqsUpTo(SlugAlphabet, MaxTextLen)
    /\ slug = <<>>
    /\ url = <<>>
    /\ params = <<>>
    /\ formatted = <<>>
    /\ absolute = FALSE

SlugifyText ==
    /\ utilPc = "input"
    /\ slug' = Slugify(text)
    /\ utilPc' = "slugified"
    /\ UNCHANGED <<text, url, params, formatted, absolute>>
    /\ UNCHANGED pipeVars
    /\ UNCHANGED cfgVars

----------------------------------------------------------------------------
(* formatUrlWithQuery *)

Contains(s, ch) == \E i \in 1..Len(s) : s[i] = ch

FirstIndexOf(s, ch) == CHOOSE i \in 1..Len(s) : s[i] = ch /\ \A j \in 1..(i - 1) : s[j] # ch

(* String.prototype.split(separator): every piece. *)
RECURSIVE Split(_, _)
Split(s, ch) ==
    IF ~Contains(s, ch)
    THEN <<s>>
    ELSE LET i == FirstIndexOf(s, ch)
         IN <<SubSeq(s, 1, i - 1)>> \o Split(SubSeq(s, i + 1, Len(s)), ch)

(* String.prototype.split(separator, limit): the first `limit` pieces.     *)
SplitLimit(s, ch, limit) ==
    LET pieces == Split(s, ch)
    IN SubSeq(pieces, 1, IF Len(pieces) < limit THEN Len(pieces) ELSE limit)

(* Percent-encoded bytes of the characters the serializer escapes.         *)
PercentCode(ch) ==
    CASE ch = "?" -> <<"%", "3", "F">>
      [] ch = "&" -> <<"%", "2", "6">>
      [] ch = "=" -> <<"%", "3", "D">>
      [] ch = "+" -> <<"%", "2", "B">>
      [] ch = "%" -> <<"%", "2", "5">>
      [] ch = "/" -> <<"%", "2", "F">>
      [] ch = "," -> <<"%", "2", "C">>

Escaped == {"?", "&", "=", "+", "%", "/", ","}

(* application/x-www-form-urlencoded serializing of one name or value.     *)
RECURSIVE UrlEncode(_)
UrlEncode(s) ==
    IF s = <<>>
    THEN <<>>
    ELSE (IF Head(s) = " " THEN <<"+">>
          ELSE IF Head(s) \in Escaped THEN PercentCode(Head(s))
          ELSE <<Head(s)>>) \o UrlEncode(Tail(s))

(* application/x-www-form-urlencoded parsing of one name or value: '+' is  *)
(* a space, and a percent-encoded byte is the character it encodes.        *)
RECURSIVE UrlDecode(_)
UrlDecode(s) ==
    IF s = <<>>
    THEN <<>>
    ELSE IF Head(s) = "+"
         THEN <<" ">> \o UrlDecode(Tail(s))
         ELSE IF /\ Head(s) = "%"
                 /\ Len(s) >= 3
                 /\ \E ch \in Escaped : PercentCode(ch) = SubSeq(s, 1, 3)
              THEN <<CHOOSE ch \in Escaped : PercentCode(ch) = SubSeq(s, 1, 3)>>
                       \o UrlDecode(SubSeq(s, 4, Len(s)))
              ELSE <<Head(s)>> \o UrlDecode(Tail(s))

(* One name=value piece of a query string. *)
ParsePair(piece) ==
    IF Contains(piece, "=")
    THEN LET i == FirstIndexOf(piece, "=")
         IN [name |-> UrlDecode(SubSeq(piece, 1, i - 1)),
             value |-> UrlDecode(SubSeq(piece, i + 1, Len(piece)))]
    ELSE [name |-> UrlDecode(piece), value |-> <<>>]

RECURSIVE ParsePieces(_)
ParsePieces(pieces) ==
    IF pieces = <<>>
    THEN <<>>
    ELSE (IF Head(pieces) = <<>> THEN <<>> ELSE <<ParsePair(Head(pieces))>>)
             \o ParsePieces(Tail(pieces))

(* new URLSearchParams(init): the list of name-value pairs of a string.    *)
ParseQuery(query) ==
    ParsePieces(Split(IF query # <<>> /\ Head(query) = "?" THEN Tail(query) ELSE query, "&"))

(* Faulty variant: URLSearchParams.prototype.append in place of set.       *)
SearchParamsSet_Append(pairs, name, value) ==
    Append(pairs, [name |-> name, value |-> value])

(* URLSearchParams.prototype.set: the first pair of that name takes the    *)
(* value and the other pairs of that name go; with no such pair, one is    *)
(* appended.                                                               *)
SearchParamsSet(pairs, name, value) ==
    IF \E i \in 1..Len(pairs) : pairs[i].name = name
    THEN LET first == CHOOSE i \in 1..Len(pairs) :
                          pairs[i].name = name /\ \A j \in 1..(i - 1) : pairs[j].name # name
             updated == [pairs EXCEPT ![first] = [name |-> name, value |-> value]]
             keep(i) == i = first \/ updated[i].name # name
             kept == {i \in 1..Len(updated) : keep(i)}
         IN [n \in 1..Cardinality(kept) |->
                updated[CHOOSE i \in kept : Cardinality({j \in kept : j < i}) = n - 1]]
    ELSE Append(pairs, [name |-> name, value |-> value])

(* URLSearchParams.prototype.toString *)
RECURSIVE SerializeQuery(_)
SerializeQuery(pairs) ==
    IF pairs = <<>>
    THEN <<>>
    ELSE UrlEncode(Head(pairs).name) \o <<"=">> \o UrlEncode(Head(pairs).value)
             \o (IF Len(pairs) > 1 THEN <<"&">> ELSE <<>>)
             \o SerializeQuery(Tail(pairs))

(* for (const [key, value] of Object.entries(params)) searchParams.set(..) *)
RECURSIVE SetAll(_, _)
SetAll(pairs, entries) ==
    IF entries = <<>>
    THEN pairs
    ELSE SetAll(SearchParamsSet(pairs, Head(entries).name, Head(entries).value),
                Tail(entries))

FormatUrlWithQuery(u, entries) ==
    LET pieces == SplitLimit(u, "?", 2)
        base == pieces[1]
        searchParams == IF Len(pieces) >= 2 THEN ParseQuery(pieces[2]) ELSE <<>>
    IN base \o <<"?">> \o SerializeQuery(SetAll(searchParams, entries))

UrlAlphabet == {"?", "&", "=", "+", "q", "x"}

Entry(name, value) == [name |-> name, value |-> value]

(* params objects: their entries in insertion order. *)
ParamObjects ==
    { <<>>,
      <<Entry(<<"q">>, <<"b">>)>>,
      <<Entry(<<"x">>, <<>>)>>,
      <<Entry(<<"x">>, <<"?", "q">>), Entry(<<"q">>, <<"x", " ">>)>> }

UrlInit ==
    /\ utilPc = "input"
    /\ url \in SeqsUpTo(UrlAlphabet, MaxUrlLen)
    /\ params \in ParamObjects
    /\ formatted = <<>>
    /\ text = <<>>
    /\ slug = <<>>
    /\ absolute = FALSE

FormatUrl ==
    /\ utilPc = "input"
    /\ formatted' = FormatUrlWithQuery(url, params)
    /\ utilPc' = "formatted"
    /\ UNCHANGED <<text, slug, url, params, absolute>>
    /\ UNCHANGED pipeVars
    /\ UNCHANGED cfgVars

----------------------------------------------------------------------------
(* isAbsoluteUrl *)

(* Faulty variant: the pattern without its i flag. *)
IsPatternLetter_CaseSensitive(ch) == ch \in Range(Lower)

(* [a-z] under the i flag. *)
IsPatternLetter(ch) == ch \in Range(Lower) \/ ToLowerChar(ch) \in Range(Lower)

(* [a-z\d+\-.] under the i flag. *)
IsPatternSchemeChar(ch) == IsPatternLetter(ch) \/ ch \in Digits \/ ch \in {"+", "-", "."}

(* [a-z\d+\-.]*: from the second character on: the class does not hold    *)
(* ':', so the run ends at the first character outside the class.          *)
RECURSIVE MatchSchemeRest(_)
MatchSchemeRest(s) ==
    IF s = <<>>
    THEN FALSE
    ELSE IF IsPatternSchemeChar(Head(s))
         THEN MatchSchemeRest(Tail(s))
         ELSE Head(s) = ":"

(* /^[a-z][a-z\d+\-.]*:/i.test(url) *)
IsAbsoluteUrl(u) == u # <<>> /\ IsPatternLetter(Head(u)) /\ MatchSchemeRest(Tail(u))

AbsAlphabet == {"h", "H", "1", "+", "-", ".", ":", "/"}

AbsInit ==
    /\ utilPc = "input"
    /\ url \in SeqsUpTo(AbsAlphabet, MaxAbsLen)
    /\ absolute = FALSE
    /\ params = <<>>
    /\ formatted = <<>>
    /\ text = <<>>
    /\ slug = <<>>

TestAbsolute ==
    /\ utilPc = "input"
    /\ absolute' = IsAbsoluteUrl(url)
    /\ utilPc' = "tested"
    /\ UNCHANGED <<text, slug, url, params, formatted>>
    /\ UNCHANGED pipeVars
    /\ UNCHANGED cfgVars

(* No render runs while the utilities are exercised. *)
PipeIdle ==
    /\ production = FALSE
    /\ loaderRev = "always"
    /\ fixture = <<>>
    /\ fakes = <<>>
    /\ pc = [r \in Renders |-> "off"]
    /\ page = [r \in Renders |-> "A"]
    /\ yielded = [r \in Renders |-> <<>>]
    /\ projects = [r \in Renders |-> <<>>]
    /\ seenAs = [r \in Renders |-> <<>>]
    /\ events = [r \in Renders |-> <<>>]
    /\ raised = [r \in Renders |-> "none"]
    /\ thrown = [r \in Renders |-> "none"]
    /\ view = [r \in Renders |-> [mounted |-> FALSE, items |-> <<>>]]

InitSlug == PipeIdle /\ ConfigIdle /\ SlugInit

NextSlug == SlugifyText

SpecSlug == InitSlug /\ [][NextSlug]_vars

InitUrl == PipeIdle /\ ConfigIdle /\ UrlInit

NextUrl == FormatUrl

SpecUrl == InitUrl /\ [][NextUrl]_vars

InitAbs == PipeIdle /\ ConfigIdle /\ AbsInit

NextAbs == TestAbsolute

SpecAbs == InitAbs /\ [][NextAbs]_vars

----------------------------------------------------------------------------
(* next.config: env.SITE_URL and redirects *)

MaxSegments == 2   \* longest request path, in segments
MaxHops == 3       \* redirects followed for one request

(* a ?? b *)
Coalesce(a, b) == IF a.t = "undefined" THEN b ELSE a

(* process.env['VERCEL_URL'] && 'https://' + process.env['VERCEL_URL'] *)
VercelSiteUrl(env) ==
    IF Truthy(env.VERCEL_URL)
    THEN Str("https://" \o env.VERCEL_URL.v)
    ELSE env.VERCEL_URL

SiteUrl(env) ==
    Coalesce(Coalesce(env.SITE_URL, VercelSiteUrl(env)), Str("http://localhost:3000"))

(* A variable of process.env is unset, set to the empty string, or set.    *)
EnvSettings ==
    [SITE_URL : {Undefined, Str(""), Str("https://caleb.me")},
     VERCEL_URL : {Undefined, Str(""), Str("caleb-me.vercel.app")}]

(* Path patterns and paths are sequences of segments.                      *)
Literal(s) == [kind |-> "literal", text |-> s]
Param(name) == [kind |-> "param", text |-> name]

Redirects ==
    << [source |-> <<Literal("projects"), Param("slug")>>,
        destination |-> <<"projects">>],
       [source |-> <<Literal("blog"), Literal("return-type-inference")>>,
        destination |-> <<"blog", "target-type-inference">>] >>

(* Faulty variant of the matching: a parameter also matches no segment,    *)
(* as :slug* would.                                                        *)
MatchesSource_ZeroOrMore(pattern, path) ==
    /\ Len(path) <= Len(pattern)
    /\ \A i \in 1..Len(pattern) :
           \/ pattern[i].kind = "param"
           \/ i <= Len(path) /\ pattern[i].text = path[i]

(* A source matches a path of as many segments, each literal equal to its  *)
(* segment and each :param matching one segment.                           *)
MatchesSource(pattern, path) ==
    /\ Len(path) = Len(pattern)
    /\ \A i \in 1..Len(pattern) :
           pattern[i].kind = "param" \/ pattern[i].text = path[i]

Redirecting(path) == {i \in 1..Len(Redirects) : MatchesSource(Redirects[i].source, path)}

(* The first rule whose source matches decides the destination.            *)
RedirectTarget(path) ==
    Redirects[CHOOSE i \in Redirecting(path) : \A j \in Redirecting(path) : i <= j].destination

Segments == {"projects", "blog", "return-type-inference", "target-type-inference", "x"}

ConfigInit ==
    /\ config \in [pc : {"loading"}, env : EnvSettings, SITE_URL : {Undefined}]
    /\ request \in [path : SeqsUpTo(Segments, MaxSegments), hops : {0}]

(* next.config.js is evaluated: env.SITE_URL is computed from process.env. *)
LoadConfig ==
    /\ config.pc = "loading"
    /\ config' = [config EXCEPT !.pc = "loaded", !.SITE_URL = SiteUrl(config.env)]
    /\ UNCHANGED <<request, pipeVars, utilVars>>

(* The request's path matches a redirect source: the client follows the    *)
(* redirect to the destination.                                            *)
FollowRedirect ==
    /\ config.pc = "loaded"
    /\ request.hops < MaxHops
    /\ Redirecting(request.path) # {}
    /\ request' = [path |-> RedirectTarget(request.path), hops |-> request.hops + 1]
    /\ UNCHANGED <<config, pipeVars, utilVars>>

InitConfig ==
    /\ PipeIdle
    /\ ConfigInit
    /\ utilPc = "idle"
    /\ text = <<>>
    /\ slug = <<>>
    /\ url = <<>>
    /\ params = <<>>
    /\ formatted = <<>>
    /\ absolute = FALSE

NextConfig == LoadConfig \/ FollowRedirect

SpecConfig == InitConfig /\ [][NextConfig]_vars

----------------------------------------------------------------------------
(* Properties of the pipeline *)

(* The records of a render's array, as the page props serialise them. *)
Records(r) == [k \in 1..Len(projects[r]) |-> fakes[projects[r][k]]]

Names(recs) == [k \in 1..Len(recs) |-> recs[k].name.v]

Returned(r, policy) == pc[r] = "done" /\ page[r] = policy

(* The Loader yielded the records B (not archived, 1 star), A (archived,   *)
(* 5 stars), C (not archived, 3 stars), in this order.                     *)
YieldedExample(r) ==
    /\ Len(seenAs[r]) = 3
    /\ Names(seenAs[r]) = <<"B", "A", "C">>
    /\ [k \in 1..3 |-> seenAs[r][k].archived.v] = <<FALSE, TRUE, FALSE>>
    /\ [k \in 1..3 |-> seenAs[r][k].stars.v] = <<1, 5, 3>>

(* C1: Policy A ordering. In the list the showcase-grid getStaticProps     *)
(* returns, no archived project precedes a non-archived one, and two       *)
(* projects with the same archived flag are in ascending collation order   *)
(* of name; when the Loader yielded [B, A(archived), C] the list is        *)
(* [B, C, A].                                                              *)
PolicyAOrdering ==
    \A r \in Renders :
        Returned(r, "A") =>
            LET out == Records(r)
            IN /\ \A i, j \in 1..Len(out) :
                      i < j => ~(out[i].archived.v /\ ~out[j].archived.v)
               /\ \A i, j \in 1..Len(out) :
                      (i < j /\ out[i].archived.v = out[j].archived.v)
                          => CollationRank(out[i].name.v) <= CollationRank(out[j].name.v)
               /\ YieldedExample(r) => Names(out) = <<"B", "C", "A">>

PolicyAOrderingWitness ==
    \E r \in Renders :
        /\ Returned(r, "A")
        /\ YieldedExample(r)
        /\ projects[r] # yielded[r]

(* C2: Policy B ordering. In the list the ranked-list getStaticProps       *)
(* returns, stars never increases from one project to the next; when the   *)
(* Loader yielded [B(1), A(5), C(3)] the list is [A, C, B].                *)
PolicyBOrdering ==
    \A r \in Renders :
        Returned(r, "B") =>
            LET out == Records(r)
            IN /\ \A i \in 1..(Len(out) - 1) : out[i].stars.v >= out[i + 1].stars.v
               /\ YieldedExample(r) => Names(out) = <<"A", "C", "B">>

PolicyBOrderingWitness ==
    \E r \in Renders :
        /\ Returned(r, "B")
        /\ YieldedExample(r)
        /\ projects[r] # yielded[r]

PositionIn(list, ref) == CHOOSE k \in 1..Len(list) : list[k] = ref

(* C3: Policy B sort is stable. Two records with equal stars are in the    *)
(* returned list in the order in which the Loader yielded them.            *)
PolicyBStable ==
    \A r \in Renders :
        Returned(r, "B") =>
            \A i, j \in 1..Len(yielded[r]) :
                (i < j /\ fakes[yielded[r][i]].stars.v = fakes[yielded[r][j]].stars.v)
                    => PositionIn(projects[r], yielded[r][i])
                           < PositionIn(projects[r], yielded[r][j])

(* Two records with equal stars were yielded after one with fewer stars,   *)
(* so the sort moved both.                                                 *)
PolicyBStableWitness ==
    \E r \in Renders :
        /\ Returned(r, "B")
        /\ \E h, i, j \in 1..Len(yielded[r]) :
               /\ h < i /\ i < j
               /\ fakes[yielded[r][i]].stars.v = fakes[yielded[r][j]].stars.v
               /\ fakes[yielded[r][h]].stars.v < fakes[yielded[r][i]].stars.v
               /\ seenAs[r][i] # seenAs[r][j]

(* C4: Policy A sort is idempotent. Sorting the returned list of the       *)
(* showcase grid again under Policy A leaves every record in its place.    *)
PolicyAIdempotent ==
    \A r \in Renders :
        Returned(r, "A") => ArraySort("A", fakes, projects[r]) = projects[r]

PolicyAIdempotentWitness ==
    \E r \in Renders :
        /\ Returned(r, "A")
        /\ Len(projects[r]) >= 3
        /\ projects[r] # yielded[r]
        /\ \E i, j \in 1..Len(projects[r]) :
               Records(r)[i].archived.v /\ ~Records(r)[j].archived.v

HasUndefined(rec) == \E key \in DOMAIN rec : rec[key].t = "undefined"

(* C5: deleteUndefined leaves no absent-valued key. No record of a         *)
(* returned list has a key bound to undefined.                             *)
NoUndefinedInProps ==
    \A r \in Renders :
        pc[r] = "done" => \A k \in 1..Len(projects[r]) : ~HasUndefined(Records(r)[k])

(* A returned list holds a record that had an undefined-valued key when    *)
(* it was buffered.                                                        *)
NoUndefinedInPropsWitness ==
    \E r \in Renders :
        /\ pc[r] = "done"
        /\ \E k \in 1..Len(seenAs[r]) : HasUndefined(seenAs[r][k])

(* C6: deleteUndefined preserves defined values. Every key a buffered      *)
(* record bound to a defined value (0, false and '' included) is bound to  *)
(* the same value in the returned list.                                    *)
DefinedValuesPreserved ==
    \A r \in Renders :
        pc[r] = "done" =>
            \A k \in 1..Len(yielded[r]) :
                \A key \in DOMAIN seenAs[r][k] :
                    seenAs[r][k][key].t # "undefined" =>
                        /\ key \in DOMAIN fakes[yielded[r][k]]
                        /\ fakes[yielded[r][k]][key] = seenAs[r][k][key]

(* A returned list holds a record with stars 0 and githubUrl '', one with  *)
(* archived false, and one that lost an undefined-valued key.              *)
DefinedValuesPreservedWitness ==
    \E r \in Renders :
        /\ pc[r] = "done"
        /\ \E k \in 1..Len(seenAs[r]) :
               /\ seenAs[r][k].stars = Num(0)
               /\ "githubUrl" \in DOMAIN seenAs[r][k]
               /\ seenAs[r][k].githubUrl = Str("")
        /\ \E k \in 1..Len(seenAs[r]) : seenAs[r][k].archived = Bool(FALSE)
        /\ \E k \in 1..Len(seenAs[r]) :
               HasUndefined(seenAs[r][k]) /\ fakes[yielded[r][k]] # seenAs[r][k]

(* C7: the Loader exposes all known projects in every environment. Every   *)
(* completed consumption of loadProjects() yielded each record of the      *)
(* fixture list once, in fixture order.                                    *)
LoaderYieldsAll ==
    \A r \in Renders :
        pc[r] = "done" =>
            yielded[r] = [i \in 1..Len(fixture) |-> i]

(* What render r returns when no other render runs: the records of the     *)
(* Data Source as compiled, cleaned and sorted by its page's policy.       *)
AloneRecords(r) ==
    LET refs == LoaderSequence
        cleaned == DeleteUndefined(refs, fixture)
        sorted == ArraySort(page[r], cleaned, refs)
    IN [k \in 1..Len(sorted) |-> cleaned[sorted[k]]]

SameAsAlone == \A r \in Renders : pc[r] = "done" => Records(r) = AloneRecords(r)

(* Every record a render has buffered and not yet cleaned itself is as it  *)
(* was when the render buffered it.                                        *)
BufferedUntouched ==
    \A r \in Renders :
        pc[r] = "buffering" =>
            \A k \in 1..Len(projects[r]) : fakes[projects[r][k]] = seenAs[r][k]

----------------------------------------------------------------------------
(* Properties of slugify *)

NthOf(S, n) == CHOOSE x \in S : Cardinality({y \in S : y < x}) = n - 1

(* The reference: lowercase; keep each character of [a-z0-9], and a hyphen *)
(* for the first character of each maximal run of other characters; then   *)
(* drop all hyphens at both ends.                                          *)
SlugReference(s) ==
    LET l == ToLowerCase(s)
        kept == {i \in 1..Len(l) : IsSlugChar(l[i]) \/ i = 1 \/ IsSlugChar(l[i - 1])}
        collapsed == [n \in 1..Cardinality(kept) |->
                         IF IsSlugChar(l[NthOf(kept, n)]) THEN l[NthOf(kept, n)] ELSE "-"]
        solid == {n \in 1..Len(collapsed) : collapsed[n] # "-"}
    IN IF solid = {}
       THEN <<>>
       ELSE SubSeq(collapsed,
                   CHOOSE n \in solid : \A m \in solid : n <= m,
                   CHOOSE n \in solid : \A m \in solid : n >= m)

HelloWorld == <<"H", "e", "l", "l", "o", ",", " ", "W", "o", "r", "l", "d", "!">>

LeadingTrailing ==
    <<" ", " ", "-", "-", "L", "e", "a", "d", "i", "n", "g", "/",
      "T", "r", "a", "i", "l", "i", "n", "g", "-", "-", " ", " ">>

(* C9: slugify(text) equals the reference, and slugify("Hello, World!") =  *)
(* "hello-world", slugify("  --Leading/Trailing--  ") = "leading-trailing".*)
SlugifyMatchesReference ==
    /\ utilPc = "slugified" => slug = SlugReference(text)
    /\ Slugify(HelloWorld) = <<"h", "e", "l", "l", "o", "-", "w", "o", "r", "l", "d">>
    /\ Slugify(LeadingTrailing) =
           <<"l", "e", "a", "d", "i", "n", "g", "-", "t", "r", "a", "i", "l", "i", "n", "g">>

(* A text with an upper-case letter, a run of two characters outside the   *)
(* class between two characters of it, and a hyphen at the start.          *)
SlugifyMatchesReferenceWitness ==
    /\ utilPc = "slugified"
    /\ Len(text) >= 5
    /\ text[1] = "-"
    /\ \E i \in 2..(Len(text) - 3) :
           /\ text[i] = "A"
           /\ ~IsSlugChar(text[i + 1])
           /\ ~IsSlugChar(text[i + 2])
           /\ IsSlugChar(text[i + 3])
    /\ Len(slug) = 3

----------------------------------------------------------------------------
(* Properties of formatUrlWithQuery *)

(* The query of a url: all of the text after its first '?'. *)
QueryOf(u) ==
    IF Contains(u, "?") THEN SubSeq(u, FirstIndexOf(u, "?") + 1, Len(u)) ELSE <<>>

(* The values a list of pairs binds a name to, in order. *)
RECURSIVE ValuesOf(_, _)
ValuesOf(pairs, name) ==
    IF pairs = <<>>
    THEN <<>>
    ELSE (IF Head(pairs).name = name THEN <<Head(pairs).value>> ELSE <<>>)
             \o ValuesOf(Tail(pairs), name)

PairNames(pairs) == {pairs[i].name : i \in 1..Len(pairs)}

ParamsBound(result, entries) ==
    \A i \in 1..Len(entries) :
        ValuesOf(ParseQuery(QueryOf(result)), entries[i].name) = <<entries[i].value>>

OthersKept(result, u, entries) ==
    \A name \in PairNames(ParseQuery(QueryOf(u))) \ PairNames(entries) :
        ValuesOf(ParseQuery(QueryOf(result)), name) = ValuesOf(ParseQuery(QueryOf(u)), name)

SearchExample ==
    <<"/", "s", "e", "a", "r", "c", "h", "?", "q", "=", "a", "&", "x", "=", "1">>

(* C10: in the url formatUrlWithQuery returns, every key of params is      *)
(* bound to the value params gives it, and every other key of the original *)
(* query keeps its values; formatUrlWithQuery("/search?q=a&x=1", {q: "b"}) *)
(* has q=b and x=1.                                                        *)
ParamsSetOthersKept ==
    /\ utilPc = "formatted" =>
           ParamsBound(formatted, params) /\ OthersKept(formatted, url, params)
    /\ LET result == FormatUrlWithQuery(SearchExample, <<Entry(<<"q">>, <<"b">>)>>)
       IN /\ ValuesOf(ParseQuery(QueryOf(result)), <<"q">>) = <<<<"b">>>>
          /\ ValuesOf(ParseQuery(QueryOf(result)), <<"x">>) = <<<<"1">>>>

(* The base path of a url: the text before its first '?'. *)
BaseOf(u) == IF Contains(u, "?") THEN SubSeq(u, 1, FirstIndexOf(u, "?") - 1) ELSE u

(* C11: formatUrlWithQuery splits url on the first '?' only. The result is *)
(* the text before the first '?', a '?', and the serialized query made of  *)
(* all of the text after the first '?' with the params set.                *)
SplitsOnFirstQuestionMark ==
    utilPc = "formatted" =>
        formatted = BaseOf(url) \o <<"?">>
                        \o SerializeQuery(SetAll(ParseQuery(QueryOf(url)), params))

(* With at most one '?' in the url, nothing is discarded. *)
SingleQuestionMarkKept ==
    (utilPc = "formatted" /\ Cardinality({i \in 1..Len(url) : url[i] = "?"}) <= 1) =>
        formatted = BaseOf(url) \o <<"?">>
                        \o SerializeQuery(SetAll(ParseQuery(QueryOf(url)), params))

----------------------------------------------------------------------------
(* Properties of isAbsoluteUrl *)

AsciiLetters == Range(Lower) \cup Range(Upper)

(* A url begins with a URI scheme: a letter, then letters, digits, '+',    *)
(* '-' or '.', then ':'.                                                   *)
BeginsWithScheme(u) ==
    \E p \in 2..Len(u) :
        /\ u[p] = ":"
        /\ u[1] \in AsciiLetters
        /\ \A i \in 2..(p - 1) : u[i] \in AsciiLetters \cup Digits \cup {"+", "-", "."}

HttpsExample ==
    <<"h", "t", "t", "p", "s", ":", "/", "/",
      "e", "x", "a", "m", "p", "l", "e", ".", "c", "o", "m">>

ProjectsPath == <<"/", "p", "r", "o", "j", "e", "c", "t", "s">>

(* C12: isAbsoluteUrl(url) is true exactly when url begins with a URI      *)
(* scheme, in either case of the letters; it is true of                    *)
(* "https://example.com" and false of "/projects".                         *)
AbsoluteIffScheme ==
    /\ utilPc = "tested" => (absolute <=> BeginsWithScheme(url))
    /\ IsAbsoluteUrl(HttpsExample)
    /\ ~IsAbsoluteUrl(ProjectsPath)

(* An upper-case scheme letter, a digit and a sign before the colon. *)
AbsoluteIffSchemeWitness ==
    /\ utilPc = "tested"
    /\ absolute
    /\ Len(url) = 4
    /\ url[1] = "H"
    /\ url[2] = "1"
    /\ url[3] \in {"+", "-", "."}
    /\ url[4] = ":"

----------------------------------------------------------------------------
(* Properties of the order and the frame of the pipeline *)

Pushes(n) == [k \in 1..n |-> "push"]

(* C13: pipeline order. While a render buffers it has run nothing but      *)
(* pushes; a render that has returned pushed every item of the Loader,     *)
(* then ran deleteUndefined, then the sort, then the return.               *)
PipelineOrder ==
    \A r \in Renders :
        /\ pc[r] = "buffering" => events[r] = Pushes(Len(yielded[r]))
        /\ pc[r] = "done" =>
               /\ yielded[r] = LoaderSequence
               /\ events[r] = Pushes(Len(LoaderSequence))
                                  \o <<"deleteUndefined", "sort", "return">>

(* One render has returned a list of two items while another is still      *)
(* suspended between the two.                                              *)
PipelineOrderWitness ==
    \E r, o \in Renders :
        /\ pc[r] = "done"
        /\ Len(yielded[r]) = 2
        /\ pc[o] = "buffering"
        /\ Len(yielded[o]) = 1

FixtureOrderKept ==
    /\ Len(fakes) = Len(fixture)
    /\ \A i \in 1..Len(fixture) :
           DeleteUndefinedRecord(fakes[i]) = DeleteUndefinedRecord(fixture[i])

(* C15: bufferIterable returns the items in the order yielded, as many as  *)
(* were yielded, and applied to loadProjects() the buffered list equals    *)
(* the Data Source list in order.                                          *)
BufferEqualsDataSource ==
    \A r \in Renders :
        /\ pc[r] = "buffering" => projects[r] = yielded[r]
        /\ pc[r] = "done" =>
               /\ Len(projects[r]) = Len(yielded[r])
               /\ seenAs[r] = fixture

(* The part of C15 about bufferIterable alone: the buffered list is the    *)
(* sequence of yielded items, and its values are those of the yielded      *)
(* records.                                                                *)
BufferKeepsYielded ==
    \A r \in Renders :
        /\ pc[r] = "buffering" => projects[r] = yielded[r]
        /\ pc[r] = "done" => Len(projects[r]) = Len(yielded[r])
        /\ pc[r] # "off" =>
               seenAs[r] = [i \in 1..Len(yielded[r]) |-> fixture[yielded[r][i]]]

IsPrefix(s, t) == Len(s) <= Len(t) /\ s = SubSeq(t, 1, Len(s))

(* C17: each consumption of the Loader is a fresh pass. Whatever the other *)
(* renders have consumed, a render's items start at the first record of    *)
(* the Data Source and follow its order, and a render that has returned    *)
(* was given the complete Data Source sequence.                            *)
FreshPass ==
    \A r \in Renders :
        /\ IsPrefix(yielded[r], AllRefs)
        /\ pc[r] = "done" => Len(yielded[r]) = Len(AllRefs)

(* The part of C17 about independence: every consumption walks the         *)
(* Loader's sequence from its start at its own pace.                       *)
FreshPassIndependent ==
    \A r \in Renders :
        /\ IsPrefix(yielded[r], LoaderSequence)
        /\ pc[r] = "done" => yielded[r] = LoaderSequence

(* C18: the pipeline terminates. A render that has not returned can always *)
(* take a step, the Loader finishes after as many items as the fixture has *)
(* records, and a render returns only then.                                *)
PipelineTerminates ==
    \A r \in Renders :
        /\ pc[r] = "buffering" => ENABLED (BufferNext(r) \/ Finish(r))
        /\ Len(yielded[r]) <= Len(fixture)
        /\ pc[r] = "done" => Len(yielded[r]) = Len(fixture)

(* Fair scheduling of the zero-duration waits: a render that can take a    *)
(* step eventually takes one.                                              *)
SpecFair == Init /\ [][Next]_vars /\ \A r \in Renders : WF_vars(BufferNext(r) \/ Finish(r))

(* The part of C18 about termination: under fair scheduling every render   *)
(* eventually returns, after as many items as the Loader's sequence has.   *)
EventuallyReturns ==
    <>[](\A r \in Renders : pc[r] = "done" /\ Len(yielded[r]) = Len(LoaderSequence))

----------------------------------------------------------------------------
(* Properties of a failing Loader *)

(* C19: if the Loader's sequence raises an error while it is buffered,     *)
(* getStaticProps fails with that same error and returns no props; a list  *)
(* that is returned is never a truncated one.                              *)
FailureNeverTruncates ==
    \A r \in Renders :
        /\ raised[r] # "none" =>
               /\ pc[r] = "failed"
               /\ thrown[r] = raised[r]
               /\ projects[r] = <<>>
        /\ pc[r] = "done" =>
               /\ raised[r] = "none"
               /\ Len(projects[r]) = Len(LoaderSequence)

(* The sequence raised after its first item of two: the render failed with *)
(* that error.                                                             *)
FailureNeverTruncatesWitness ==
    \E r \in Renders :
        /\ raised[r] = "RateLimitError"
        /\ pc[r] = "failed"
        /\ Len(yielded[r]) = 1
        /\ Len(LoaderSequence) = 2

----------------------------------------------------------------------------
(* Properties of the fixture lists *)

IsCount(rec, key) ==
    /\ key \in DOMAIN rec
    /\ rec[key].t = "number"
    /\ rec[key].v \in Nat

HasCounts(rec) == IsCount(rec, "stars") /\ IsCount(rec, "downloads")

RepositoryFixturesUnchanged == fakes = fixture

----------------------------------------------------------------------------
(* Properties of ProjectsPage *)

(* C21: when a project's githubUrl is absent, the href of its GitHub link  *)
(* is the project's url, on the card grid and on the ranked list.          *)
GithubLinkFallsBack ==
    \A r \in Renders :
        view[r].mounted =>
            \A k \in 1..Len(projects[r]) :
                "githubUrl" \notin DOMAIN Records(r)[k]
                    => view[r].items[k].href = PropertyGet(Records(r)[k], "url")

(* The part of C21 about the card grid: there the link falls back to url.  *)
CardGridLinkFallsBack ==
    \A r \in Renders :
        (view[r].mounted /\ page[r] = "A") =>
            \A k \in 1..Len(projects[r]) :
                "githubUrl" \notin DOMAIN Records(r)[k]
                    => view[r].items[k].href = PropertyGet(Records(r)[k], "url")

(* C22: the key of a rendered element depends only on the name of its      *)
(* project: two elements rendered for projects of the same name have the   *)
(* same key, whatever their positions.                                     *)
KeyDependsOnNameOnly ==
    \A r, o \in Renders :
        (view[r].mounted /\ view[o].mounted) =>
            \A k \in 1..Len(projects[r]), j \in 1..Len(projects[o]) :
                Records(r)[k].name = Records(o)[j].name
                    => view[r].items[k].key = view[o].items[j].key

Tiers == {"border-purple-500", "border-purple-300", "border-purple-100"}

TierOf(stars) ==
    IF stars >= 1000 THEN "border-purple-500"
    ELSE IF stars >= 100 THEN "border-purple-300"
    ELSE "border-purple-100"

(* C27: the star tiers partition the stars range. Every ranked-list card   *)
(* has exactly one of the three tier classes: border-purple-500 from 1000  *)
(* stars, border-purple-300 from 100 to 999, border-purple-100 below 100.  *)
StarTiersPartition ==
    \A r \in Renders :
        (view[r].mounted /\ page[r] = "B") =>
            \A k \in 1..Len(projects[r]) :
                /\ Cardinality(view[r].items[k].classes \cap Tiers) = 1
                /\ view[r].items[k].classes \cap Tiers = {TierOf(Records(r)[k].stars.v)}

(* A card of a project with exactly 100 stars was rendered in the middle   *)
(* tier.                                                                   *)
StarTiersPartitionWitness ==
    \E r \in Renders :
        /\ view[r].mounted
        /\ page[r] = "B"
        /\ Len(projects[r]) = 1
        /\ Records(r)[1].stars.v = 100
        /\ "border-purple-300" \in view[r].items[1].classes

----------------------------------------------------------------------------
(* Properties of the returned list as a whole *)

Occurrences(list, x) == Cardinality({i \in 1..Len(list) : list[i] = x})

IsPermutation(s, t) ==
    /\ Len(s) = Len(t)
    /\ \A i \in 1..Len(t) : Occurrences(s, t[i]) = Occurrences(t, t[i])

(* C23: the returned list is a permutation of the records the Loader       *)
(* yielded, and it is as long as the Data Source.                          *)
ReturnedIsPermutation ==
    \A r \in Renders :
        pc[r] = "done" =>
            /\ IsPermutation(projects[r], yielded[r])
            /\ Len(projects[r]) = Len(fixture)

(* The part of C23 about the pipeline after the Loader: nothing yielded is *)
(* dropped, duplicated or added, under either policy.                      *)
PermutationOfYielded ==
    \A r \in Renders :
        pc[r] = "done" =>
            /\ IsPermutation(projects[r], yielded[r])
            /\ IsPermutation(Names(Records(r)), Names(seenAs[r]))

Permuted(list, f) == [k \in 1..Len(list) |-> list[f[k]]]

Values(list) == [k \in 1..Len(list) |-> fakes[list[k]]]

DistinctIdentities(list) ==
    \A i, j \in 1..Len(list) :
        i # j => \/ fakes[list[i]].archived # fakes[list[j]].archived
                 \/ fakes[list[i]].name # fakes[list[j]].name

(* C24: Policy A is independent of the input order when no two records     *)
(* share both archived and name: sorting any permutation of the list gives *)
(* the list that was returned.                                             *)
PolicyAOrderIndependent ==
    \A r \in Renders :
        (Returned(r, "A") /\ DistinctIdentities(projects[r])) =>
            \A f \in Permutations(1..Len(projects[r])) :
                Values(ArraySort("A", fakes, Permuted(projects[r], f)))
                    = Values(projects[r])

(* The part of C24 that holds: the order is independent of the input when  *)
(* no two records share archived and have names that localeCompare finds   *)
(* equal.                                                                  *)
PolicyAOrderIndependentUpToCollation ==
    \A r \in Renders :
        (/\ Returned(r, "A")
         /\ \A i, j \in 1..Len(projects[r]) :
                i # j => ComparePolicyA(Records(r)[i], Records(r)[j]) # 0) =>
            \A f \in Permutations(1..Len(projects[r])) :
                Values(ArraySort("A", fakes, Permuted(projects[r], f)))
                    = Values(projects[r])

(* A list of three records that compare unequal was returned in an order   *)
(* other than the one it was yielded in.                                   *)
PolicyAOrderIndependentUpToCollationWitness ==
    \E r \in Renders :
        /\ Returned(r, "A")
        /\ Len(projects[r]) = 3
        /\ \A i, j \in 1..3 :
               i # j => ComparePolicyA(Records(r)[i], Records(r)[j]) # 0
        /\ projects[r] # yielded[r]

----------------------------------------------------------------------------
(* Algebraic properties of the utilities *)

(* C25: a slug has only characters of [a-z0-9-], neither begins nor ends   *)
(* with a hyphen, has no two adjacent hyphens, and is its own slug.        *)
SlugShapeAndIdempotent ==
    utilPc = "slugified" =>
        /\ \A i \in 1..Len(slug) : IsSlugChar(slug[i]) \/ slug[i] = "-"
        /\ slug # <<>> => slug[1] # "-" /\ slug[Len(slug)] # "-"
        /\ \A i \in 1..(Len(slug) - 1) : ~(slug[i] = "-" /\ slug[i + 1] = "-")
        /\ Slugify(slug) = slug

(* The text began with a space, held an upper-case letter and a run of two *)
(* characters outside the class, and ended with a hyphen; its slug has a   *)
(* single hyphen inside.                                                   *)
SlugShapeAndIdempotentWitness ==
    /\ utilPc = "slugified"
    /\ text = <<" ", "A", "-", " ", "b">> \/ text = <<" ", "A", " ", "b", "-">>
    /\ slug = <<"a", "-", "b">>

(* C26: the result of formatUrlWithQuery always contains a '?'; with empty *)
(* params and a url without query it is the url followed by a bare '?';    *)
(* and formatting the result again with the same params gives the result.  *)
AlwaysQuestionMarkAndIdempotent ==
    utilPc = "formatted" =>
        /\ Contains(formatted, "?")
        /\ (params = <<>> /\ ~Contains(url, "?")) => formatted = url \o <<"?">>
        /\ FormatUrlWithQuery(formatted, params) = formatted

(* A url with a query that names q twice was formatted with a params that  *)
(* sets q: the result differs from the url.                                *)
AlwaysQuestionMarkAndIdempotentWitness ==
    /\ utilPc = "formatted"
    /\ url = <<"?", "q", "&", "q", "=">>
    /\ params = <<Entry(<<"q">>, <<"b">>)>>
    /\ formatted = <<"?", "q", "=", "b">>

----------------------------------------------------------------------------
(* Properties of next.config *)

IsSet(value) == value.t = "string"

(* C28: env.SITE_URL is the environment's SITE_URL when that is set,       *)
(* otherwise 'https://' + VERCEL_URL when that is set, otherwise           *)
(* 'http://localhost:3000'; and it is a non-empty string whatever the two  *)
(* variables are: unset, empty or set.                                     *)
SiteUrlResolution ==
    config.pc = "loaded" =>
        /\ config.SITE_URL =
               (IF IsSet(config.env.SITE_URL) THEN config.env.SITE_URL
                ELSE IF IsSet(config.env.VERCEL_URL)
                     THEN Str("https://" \o config.env.VERCEL_URL.v)
                     ELSE Str("http://localhost:3000"))
        /\ config.SITE_URL.t = "string"
        /\ config.SITE_URL.v # ""

(* The part of C28 that holds: with both variables unset or non-empty, the *)
(* precedence is the one stated and the result is non-empty.               *)
SiteUrlResolutionNoEmpty ==
    (/\ config.pc = "loaded"
     /\ config.env.SITE_URL # Str("")
     /\ config.env.VERCEL_URL # Str("")) =>
        /\ config.SITE_URL =
               (IF IsSet(config.env.SITE_URL) THEN config.env.SITE_URL
                ELSE IF IsSet(config.env.VERCEL_URL)
                     THEN Str("https://" \o config.env.VERCEL_URL.v)
                     ELSE Str("http://localhost:3000"))
        /\ config.SITE_URL.v # ""

(* C29: no redirect destination matches a redirect source, so a request    *)
(* follows at most one redirect and then stands on a path that no rule     *)
(* redirects.                                                              *)
RedirectsEndInOneHop ==
    /\ \A i, j \in 1..Len(Redirects) :
           ~MatchesSource(Redirects[i].source, Redirects[j].destination)
    /\ request.hops <= 1
    /\ request.hops = 1 => Redirecting(request.path) = {}

(* A request for /projects/x was redirected once, to /projects.            *)
RedirectsEndInOneHopWitness ==
    /\ request.hops = 1
    /\ request.path = <<"projects">>
    /\ config.pc = "loaded"

====
